---- MODULE Spec2Model ----
(***************************************************************************)
(* codex-skill (src/src/index.ts): the registry source locator, the        *)
(* reference resolver, the registry lookups, the integrity check and the   *)
(* archive installer of the `install` command.                             *)
(*                                                                         *)
(* Strings of the program are sequences of tokens.  A token is one         *)
(* character class the code distinguishes: the separator "/", a scheme     *)
(* prefix ("http://", "https://", "file://"), a path segment, a letter of  *)
(* a skill name, a hex digit.  The empty string is <<>>.  An optional      *)
(* value is <<>> (undefined) or <<v>>.  node:path is modelled in its POSIX  *)
(* flavour; process.platform decides the extraction fallback only.         *)
(***************************************************************************)
EXTENDS Integers, Sequences, FiniteSets, TLC

VARIABLES
    call,            \* harness: the function applied and its arguments
    ret,             \* harness: what the call returned or threw
    pc,              \* install: the await the action is suspended at
    options,         \* install: --version, --to, --out
    env,             \* process.env, process.cwd(), os.homedir(), os.tmpdir()
    world,           \* the registry's documents and the artifact's bytes
                     \* the action's constants, <<>> until assigned, then <<value>>
                     \* (documents, buffer) or the string itself (sources, paths):
    registrySource, index, skill, manifest, version, entry, artifact,
    artifactSource, outputPath, buffer, destination,
    dirs, files,     \* the filesystem: directories, and (path, content) pairs
    dirs0, files0,   \* the filesystem as the run found it
    trace,           \* the I/O and process operations issued, in order
    error            \* the message of the Error the action threw, "" if none

\* ------------------------------------------------------------------ bounds

MaxDepth == 2

MaxSkills == 2

MaxVersions == 2

MaxHexLen == 2

\* ------------------------------------------------------- optional values

Undefined == <<>>

Some(v) == <<v>>

IsDefined(o) == o # <<>>

\* JavaScript truthiness of an optional string: undefined and "" are falsy.
Truthy(o) == o # <<>> /\ o[1] # <<>>

\* ---------------------------------------------------------------- strings

StartsWith(s, tok) == Len(s) > 0 /\ s[1] = tok

IsHttp(value) == StartsWith(value, "http://") \/ StartsWith(value, "https://")

Last(s) == s[Len(s)]

Front(s) == SubSeq(s, 1, Len(s) - 1)

\* ------------------------------------------------- node:path, POSIX flavour

\* The segments of a path string: the separators dropped, the empty segments
\* between adjacent separators with them.
RECURSIVE Segs(_)
Segs(p) ==
    IF p = <<>> THEN <<>>
    ELSE IF Head(p) = "/" THEN Segs(Tail(p))
    ELSE <<Head(p)>> \o Segs(Tail(p))

RECURSIVE JoinSegs(_)
JoinSegs(segs) ==
    IF segs = <<>> THEN <<>>
    ELSE IF Len(segs) = 1 THEN segs
    ELSE <<Head(segs), "/">> \o JoinSegs(Tail(segs))

\* normalizeString: "." dropped, ".." removes the segment before it; above
\* the start ".." is kept for a relative path and dropped for an absolute one.
RECURSIVE NormAcc(_, _, _)
NormAcc(acc, rest, allowAboveRoot) ==
    IF rest = <<>> THEN acc
    ELSE LET s == Head(rest) IN
        IF s = "." THEN NormAcc(acc, Tail(rest), allowAboveRoot)
        ELSE IF s = ".." THEN
            IF acc # <<>> /\ Last(acc) # ".."
            THEN NormAcc(Front(acc), Tail(rest), allowAboveRoot)
            ELSE IF allowAboveRoot
            THEN NormAcc(Append(acc, ".."), Tail(rest), allowAboveRoot)
            ELSE NormAcc(acc, Tail(rest), allowAboveRoot)
        ELSE NormAcc(Append(acc, s), Tail(rest), allowAboveRoot)

NormSegs(segs, allowAboveRoot) == NormAcc(<<>>, segs, allowAboveRoot)

IsAbsolute(p) == StartsWith(p, "/")

\* path.normalize
PathNormalize(p) ==
    IF p = <<>> THEN <<".">>
    ELSE LET body == JoinSegs(NormSegs(Segs(p), ~IsAbsolute(p)))
             trailing == Last(p) = "/"
         IN IF body = <<>>
            THEN (IF IsAbsolute(p) THEN <<"/">>
                  ELSE IF trailing THEN <<".", "/">> ELSE <<".">>)
            ELSE (IF IsAbsolute(p) THEN <<"/">> ELSE <<>>) \o body
                 \o (IF trailing THEN <<"/">> ELSE <<>>)

\* The non-empty arguments joined by "/".
RECURSIVE JoinArgs(_)
JoinArgs(args) ==
    IF args = <<>> THEN <<>>
    ELSE IF Head(args) = <<>> THEN JoinArgs(Tail(args))
    ELSE LET rest == JoinArgs(Tail(args)) IN
         IF rest = <<>> THEN Head(args) ELSE Head(args) \o <<"/">> \o rest

\* path.join
PathJoin(args) == PathNormalize(JoinArgs(args))

\* path.resolve, right to left until an absolute argument.
RECURSIVE RawFrom(_)
RawFrom(args) ==
    IF args = <<>> THEN <<>>
    ELSE IF Last(args) = <<>> THEN RawFrom(Front(args))
    ELSE IF IsAbsolute(Last(args)) THEN Last(args)
    ELSE RawFrom(Front(args)) \o <<"/">> \o Last(args)

\* path.resolve(...args) of a process whose working directory is cwd (an
\* absolute path): always an absolute, normalized path.
PathResolve(cwd, args) ==
    <<"/">> \o JoinSegs(NormSegs(Segs(RawFrom(<<cwd>> \o args)), FALSE))

\* The positions of p, after the first, that hold a separator followed
\* somewhere by a non-separator.
DirnameCuts(p) ==
    {i \in 2..Len(p) : p[i] = "/" /\ \E j \in (i + 1)..Len(p) : p[j] # "/"}

Max(S) == CHOOSE x \in S : \A y \in S : y <= x

\* path.dirname
PathDirname(p) ==
    IF p = <<>> THEN <<".">>
    ELSE IF DirnameCuts(p) = {}
    THEN (IF IsAbsolute(p) THEN <<"/">> ELSE <<".">>)
    ELSE LET i == Max(DirnameCuts(p)) IN
         IF IsAbsolute(p) /\ i = 2 THEN <<"/", "/">> ELSE SubSeq(p, 1, i - 1)

\* ------------------------------------------------------------ WHATWG URL

\* The percent-encoding of a path segment by the URL parser: a space becomes
\* %20, an existing escape is kept as it is.
PercentEncode(seg) == IF seg = "a b" THEN "a%20b" ELSE seg

\* The URL parser's path state: "." dropped, ".." pops, empty segments kept;
\* a dot segment in the last place leaves an empty last segment.
RECURSIVE UrlSegAcc(_, _)
UrlSegAcc(acc, rest) ==
    IF rest = <<>> THEN acc
    ELSE LET s == Head(rest)
             last == Len(rest) = 1
         IN IF s = ".." THEN
                UrlSegAcc((IF acc = <<>> THEN acc ELSE Front(acc))
                          \o (IF last THEN <<"">> ELSE <<>>), Tail(rest))
            ELSE IF s = "." THEN
                UrlSegAcc(acc \o (IF last THEN <<"">> ELSE <<>>), Tail(rest))
            ELSE UrlSegAcc(Append(acc, PercentEncode(s)), Tail(rest))

\* The segments of a path string as the URL parser splits it: one segment
\* after every separator, the empty ones included.
RECURSIVE UrlSplit(_)
UrlSplit(p) ==
    IF p = <<>> THEN <<>>
    ELSE IF Head(p) = "/"
    THEN (IF Len(p) = 1 \/ p[2] = "/" THEN <<"">> \o UrlSplit(Tail(p))
          ELSE <<p[2]>> \o UrlSplit(Tail(Tail(p))))
    ELSE <<Head(p)>> \o UrlSplit(Tail(p))

RECURSIVE UrlJoin(_)
UrlJoin(segs) ==
    IF segs = <<>> THEN <<>>
    ELSE <<"/">> \o (IF Head(segs) = "" THEN <<>> ELSE <<Head(segs)>>)
         \o UrlJoin(Tail(segs))

UrlPath(segs) == IF segs = <<>> THEN <<"/">> ELSE UrlJoin(UrlSegAcc(<<>>, segs))

\* new URL(u).pathname of a file: URL.  A token right after the scheme that is
\* not a separator is the URL's host, not part of its path.
FileUrlPathname(u) ==
    LET rest == Tail(u)
        path == IF rest # <<>> /\ Head(rest) # "/" THEN Tail(rest) ELSE rest
    IN UrlPath(UrlSplit(path))

\* new URL(relativePath, base).toString() for an http(s) base of the form
\* scheme host path: a reference with a scheme of its own stands as it is, one
\* that starts with a separator replaces the base's path, any other is merged
\* with the base's path less its last segment.
UrlResolve(relativePath, base) ==
    IF IsHttp(relativePath) \/ StartsWith(relativePath, "file://") THEN relativePath
    ELSE
    LET origin == SubSeq(base, 1, 2)
        basePath == UrlSplit(SubSeq(base, 3, Len(base)))
        refSegs == UrlSplit(relativePath)
        merged == IF relativePath = <<>> THEN basePath
                  ELSE IF IsAbsolute(relativePath) THEN refSegs
                  ELSE (IF basePath = <<>> THEN <<>> ELSE Front(basePath)) \o refSegs
    IN origin \o UrlPath(merged)

\* ------------------------------------------------------- results of calls

Return(v) == [done |-> TRUE, threw |-> FALSE, error |-> "", value |-> <<v>>]

Throw(message) == [done |-> TRUE, threw |-> TRUE, error |-> message, value |-> <<>>]

NotCalled == [done |-> FALSE, threw |-> FALSE, error |-> "", value |-> <<>>]

\* ---------------------------------------------------------- Source Locator

DEFAULT_REGISTRY_URL ==
    <<"https://", "raw.githubusercontent.com", "/", "iluxu", "/",
      "codex-skills-registry", "/", "main", "/", "index.json">>

localCandidates(cwd) ==
    << PathResolve(cwd, << <<"codex-skills-registry">>, <<"index.json">> >>),
       PathResolve(cwd, << <<"..">>, <<"codex-skills-registry">>, <<"index.json">> >>),
       PathResolve(cwd, << <<"repos">>, <<"codex-skills-registry">>, <<"index.json">> >>),
       PathResolve(cwd, << <<"..">>, <<"repos">>, <<"codex-skills-registry">>,
                           <<"index.json">> >>) >>

Min(S) == CHOOSE x \in S : \A y \in S : x <= y

\* Faulty variant: the environment override consulted before the --registry option.
ResolveRegistrySource_EnvFirst(optsRegistry, envRegistry, cwd, existing) ==
    IF Truthy(envRegistry) THEN envRegistry[1]
    ELSE IF Truthy(optsRegistry) THEN optsRegistry[1]
    ELSE LET candidates == localCandidates(cwd)
             found == {i \in 1..Len(candidates) : candidates[i] \in existing}
         IN IF found # {} THEN candidates[Min(found)] ELSE DEFAULT_REGISTRY_URL

\* resolveRegistrySource(): optsRegistry is program.opts().registry, envRegistry
\* is process.env.REGISTRY_URL, existing the paths existsSync answers true for.
ResolveRegistrySource(optsRegistry, envRegistry, cwd, existing) ==
    IF Truthy(optsRegistry) THEN optsRegistry[1]
    ELSE IF Truthy(envRegistry) THEN envRegistry[1]
    ELSE LET candidates == localCandidates(cwd)
             found == {i \in 1..Len(candidates) : candidates[i] \in existing}
         IN IF found # {} THEN candidates[Min(found)] ELSE DEFAULT_REGISTRY_URL

\* ------------------------------------------------------- Reference Resolver

\* Which return statement of resolveRelativeSource is taken.
ResolveBranch(base, relativePath) ==
    IF IsHttp(relativePath) \/ StartsWith(relativePath, "file://") THEN "absolute"
    ELSE IF IsHttp(base) THEN "url"
    ELSE IF StartsWith(base, "file://") THEN "fileUrl"
    ELSE "path"

\* Faulty variant: the first test forgets the file:// references.
ResolveRelativeSource_HttpOnly(cwd, base, relativePath) ==
    IF IsHttp(relativePath) THEN relativePath
    ELSE IF IsHttp(base) THEN UrlResolve(relativePath, base)
    ELSE IF StartsWith(base, "file://")
    THEN PathResolve(cwd, <<PathDirname(FileUrlPathname(base)), relativePath>>)
    ELSE PathResolve(cwd, <<PathDirname(base), relativePath>>)

ResolveRelativeSource(cwd, base, relativePath) ==
    LET branch == ResolveBranch(base, relativePath) IN
    IF branch = "absolute" THEN relativePath
    ELSE IF branch = "url" THEN UrlResolve(relativePath, base)
    ELSE IF branch = "fileUrl"
    THEN PathResolve(cwd, <<PathDirname(FileUrlPathname(base)), relativePath>>)
    ELSE PathResolve(cwd, <<PathDirname(base), relativePath>>)

\* ----------------------------------------------------------- Registry Model

\* String.prototype.toLowerCase on the letters of a skill name.
LowerChar(c) == IF c = "F" THEN "f" ELSE IF c = "O" THEN "o" ELSE c

RECURSIVE ToLowerCase(_)
ToLowerCase(s) ==
    IF s = <<>> THEN <<>> ELSE <<LowerChar(Head(s))>> \o ToLowerCase(Tail(s))

\* String.prototype.trim: the white space at both ends removed.
RECURSIVE TrimStart(_)
TrimStart(s) == IF s # <<>> /\ Head(s) = " " THEN TrimStart(Tail(s)) ELSE s

RECURSIVE TrimEnd(_)
TrimEnd(s) == IF s # <<>> /\ Last(s) = " " THEN TrimEnd(Front(s)) ELSE s

Trim(s) == TrimEnd(TrimStart(s))

\* Faulty variant: the last match returned instead of the first.
FindSkill_LastMatch(idx, name) ==
    LET normalized == ToLowerCase(Trim(name))
        found == {i \in 1..Len(idx.skills) :
                     ToLowerCase(idx.skills[i].name) = normalized}
    IN IF found = {} THEN Throw("Skill not found") ELSE Return(idx.skills[Max(found)])

\* findSkill(index, name): Array.prototype.find returns the first match.
FindSkill(idx, name) ==
    LET normalized == ToLowerCase(Trim(name))
        found == {i \in 1..Len(idx.skills) :
                     ToLowerCase(idx.skills[i].name) = normalized}
    IN IF found = {} THEN Throw("Skill not found") ELSE Return(idx.skills[Min(found)])

\* Faulty variant: || in place of ??, so that an empty --version gives way to latest.
RequestedVersion_OrLatest(optVersion, sk) ==
    IF IsDefined(optVersion) /\ optVersion[1] # "" THEN optVersion[1] ELSE sk.latest

\* const version = options.version ?? skill.latest
RequestedVersion(optVersion, sk) ==
    IF IsDefined(optVersion) THEN optVersion[1] ELSE sk.latest

\* Faulty variant: the manifest's first entry stands in for a version that is not there.
FindVersionEntry_OrFirst(man, v) ==
    LET found == {i \in 1..Len(man.versions) : man.versions[i].version = v}
    IN IF found # {} THEN Some(man.versions[Min(found)])
       ELSE IF man.versions # <<>> THEN Some(man.versions[1]) ELSE Undefined

\* manifest.versions.find((item) => item.version === version)
FindVersionEntry(man, v) ==
    LET found == {i \in 1..Len(man.versions) : man.versions[i].version = v}
    IN IF found = {} THEN Undefined ELSE Some(man.versions[Min(found)])

\* Faulty variant: a version's descriptor without a url gives way to the skill's.
SelectArtifact_PreferUsable(ent, sk) ==
    IF IsDefined(ent.artifact) /\ ent.artifact[1].url # <<>>
    THEN ent.artifact ELSE sk.artifact

\* const artifact = entry.artifact ?? skill.artifact
SelectArtifact(ent, sk) ==
    IF IsDefined(ent.artifact) THEN ent.artifact ELSE sk.artifact

\* !artifact?.url
HasUrl(art) == IsDefined(art) /\ art[1].url # <<>>

\* ------------------------------------------------------- Integrity Verifier

\* createHash("sha256").update(buffer).digest("hex"): lowercase hex digits,
\* distinct contents giving distinct digests.
sha256(buf) ==
    IF buf = "bytesA" THEN <<"a", "0">>
    ELSE IF buf = "bytesB" THEN <<"0", "b">>
    ELSE <<"b", "a">>

LowerHex(c) == IF c = "A" THEN "a" ELSE IF c = "B" THEN "b" ELSE c

\* Faulty variant: the digests compared without regard to letter case.
IntegrityPasses_IgnoreCase(art, buf) ==
    IF Truthy(art.sha256)
    THEN sha256(buf) = [i \in 1..Len(art.sha256[1]) |-> LowerHex(art.sha256[1][i])]
    ELSE TRUE

\* Whether the check of lines 148-153 lets the install go on.
IntegrityPasses(art, buf) ==
    IF Truthy(art.sha256) THEN sha256(buf) = art.sha256[1] ELSE TRUE

\* -------------------------------------------------------- Archive Installer

resolveSkillsDestination(target, e) ==
    IF Truthy(target) THEN PathResolve(e.cwd, <<target[1]>>)
    ELSE IF Truthy(e.CODEX_HOME) THEN PathJoin(<<e.CODEX_HOME[1], <<"skills">> >>)
    ELSE PathJoin(<<e.homedir, <<".codex">>, <<"skills">> >>)

\* =========================================================== function calls

vars == <<call, ret, pc, options, env, world, registrySource, index, skill,
          manifest, version, entry, artifact, artifactSource, outputPath,
          buffer, destination, dirs, files, dirs0, files0, trace, error>>

installVars == <<pc, options, env, world, registrySource, index, skill,
                 manifest, version, entry, artifact, artifactSource, outputPath,
                 buffer, destination, dirs, files, dirs0, files0, trace, error>>

\* No install command is running.
NoInstall ==
    /\ pc = "idle" /\ options = <<>> /\ env = <<>> /\ world = <<>>
    /\ registrySource = <<>> /\ index = <<>> /\ skill = <<>> /\ manifest = <<>>
    /\ version = <<>> /\ entry = <<>> /\ artifact = <<>> /\ artifactSource = <<>>
    /\ outputPath = <<>> /\ buffer = <<>> /\ destination = <<>>
    /\ dirs = {} /\ files = {} /\ dirs0 = {} /\ files0 = {}
    /\ trace = <<>> /\ error = ""

\* All sequences over S of length at most n.
SeqsUpTo(S, n) == UNION {[1..k -> S] : k \in 0..n}

PathOf(segs, absolute) == (IF absolute THEN <<"/">> ELSE <<>>) \o JoinSegs(segs)

Cwds == {<<"/">>, <<"/", "w">>, <<"/", "w", "/", "d">>}

\* ---- resolveRegistrySource

RegistryInputs ==
    {Undefined, Some(<<>>), Some(<<"/", "r", "/", "index.json">>),
     Some(<<"https://", "h", "/", "index.json">>)}

LocatorCalls(c) ==
    {[fn |-> "resolveRegistrySource", registry |-> r, envRegistry |-> e,
      cwd |-> c, existing |-> x] :
        r \in RegistryInputs, e \in RegistryInputs,
        x \in SUBSET {localCandidates(c)[i] : i \in 1..4}}

InitLocator ==
    /\ call \in UNION {LocatorCalls(c) : c \in Cwds}
    /\ ret = NotCalled
    /\ NoInstall

CallResolveRegistrySource ==
    /\ call.fn = "resolveRegistrySource" /\ ~ret.done
    /\ ret' = Return(ResolveRegistrySource(call.registry, call.envRegistry,
                                            call.cwd, call.existing))
    /\ UNCHANGED <<call, installVars>>

SpecLocator == InitLocator /\ [][CallResolveRegistrySource]_vars

\* ---- resolveRelativeSource

DirSegs == {"x", "a b", "a%20b", ".."}

RefSegs == {"m.json", "d", "..", "."}

LocalBases ==
    {PathOf(d \o <<"index.json">>, a) : d \in SeqsUpTo(DirSegs, MaxDepth), a \in BOOLEAN}

FileUrlBases ==
    {<<"file://">> \o PathOf(d \o <<"index.json">>, TRUE) : d \in SeqsUpTo(DirSegs, MaxDepth)}
    \cup {<<"file://", "localhost", "/", "x", "/", "index.json">>}

HttpBases ==
    {<<"https://", "h">> \o PathOf(d \o <<"index.json">>, TRUE) :
        d \in SeqsUpTo({"a", "a b"}, MaxDepth)}
    \cup {<<"http://", "h">>}

UrlRefs ==
    {<<"https://", "h", "/", "m.json">>, <<"http://", "g", "/", "d", "/", "m.json">>,
     <<"file://", "/", "x", "/", "m.json">>}

PathRefs == {PathOf(r, a) : r \in SeqsUpTo(RefSegs, MaxDepth), a \in BOOLEAN}

InitResolve ==
    /\ call \in {[fn |-> "resolveRelativeSource", cwd |-> c, base |-> b, ref |-> r] :
                     c \in {<<"/">>, <<"/", "w">>},
                     b \in LocalBases \cup FileUrlBases \cup HttpBases,
                     r \in UrlRefs \cup PathRefs}
    /\ ret = NotCalled
    /\ NoInstall

CallResolveRelativeSource ==
    /\ call.fn = "resolveRelativeSource" /\ ~ret.done
    /\ ret' = Return(ResolveRelativeSource(call.cwd, call.base, call.ref))
    /\ UNCHANGED <<call, installVars>>

SpecResolve == InitResolve /\ [][CallResolveRelativeSource]_vars

\* ---- findSkill

SkillNames ==
    {<<"f", "o">>, <<"F", "o">>, <<"F", "O">>, <<" ", "f", "o">>, <<"f", "o", " ">>,
     <<"f", " ", "o">>, <<"g", "o">>, <<>>}

\* An IndexSkill of the index document.
IndexSkill(n, l, a, m) == [name |-> n, latest |-> l, artifact |-> a, manifest |-> m]

HarnessSkills ==
    {IndexSkill(n, l, Undefined, <<"manifest.json">>) : n \in SkillNames, l \in {"1.0", "2.0"}}

InitFind ==
    /\ call \in {[fn |-> "findSkill", index |-> [skills |-> sk], name |-> n] :
                     sk \in SeqsUpTo(HarnessSkills, MaxSkills), n \in SkillNames}
    /\ ret = NotCalled
    /\ NoInstall

CallFindSkill ==
    /\ call.fn = "findSkill" /\ ~ret.done
    /\ ret' = FindSkill(call.index, call.name)
    /\ UNCHANGED <<call, installVars>>

SpecFind == InitFind /\ [][CallFindSkill]_vars

\* ============================================================ install

\* ---- the filesystem

\* A path as the operating system resolves it for a process in cwd.
FsAbs(p) == PathResolve(env.cwd, <<p>>)

\* An absolute normalized path, its parent directory, and so on up to the root.
Ancestors(p) ==
    LET segs == Segs(p)
    IN {PathOf(SubSeq(segs, 1, k), TRUE) : k \in 0..Len(segs)}

\* Whether p lies in directory d, at any depth.
IsInside(p, d) == p # d /\ d \in Ancestors(p)

FilePaths(fs) == {f[1] : f \in fs}

\* fs.writeFile(path, content): the file created or replaced.
WriteFile(fs, path, content) == {f \in fs : f[1] # path} \cup {<<path, content>>}

\* fs.writeFile succeeds when the parent is a directory and the path is none.
CanWrite(ds, fs, path) ==
    /\ PathDirname(path) \in ds
    /\ path \notin ds
    /\ PathDirname(path) \notin FilePaths(fs)

\* fs.mkdir(path, {recursive: true}) succeeds unless a file is in the way.
CanMkdir(fs, path) == Ancestors(path) \cap FilePaths(fs) = {}

\* unzip -o archive -d destination: the archive's files written over whatever
\* is there.
Extract(fs, dest, content) == WriteFile(fs, PathJoin(<<dest, <<"SKILL.md">> >>), content)

\* ---- the operations issued

Op(o, a, r) == [op |-> o, arg |-> a, result |-> r]

RECURSIVE StrCat(_)
StrCat(s) == IF s = <<>> THEN "" ELSE Head(s) \o StrCat(Tail(s))

\* `${skill.name}-${version}.skill`, one path segment
TempFileName(sk, v) == <<StrCat(sk.name) \o "-" \o v \o ".skill">>

\* fs.mkdtemp(path.join(os.tmpdir(), "codex-skill-")): a directory no run used.
TempDir(e) == PathJoin(<<e.tmpdir, <<"codex-skill-XXXXXX">> >>)

\* How a spawned command ends: exit code 0, another exit code, or the "error"
\* event, with code ENOENT (no such command) or another (EACCES).
SpawnOutcomes == {"exit0", "exit1", "ENOENT", "EACCES"}

\* What the tool left in the destination: all of the archive on exit code 0,
\* all or none of it (it is not transactional) on another exit code, nothing
\* when it never ran.
Extracted(fs, dest, content, outcome, partly) ==
    IF outcome = "exit0" \/ (outcome = "exit1" /\ partly)
    THEN Extract(fs, dest, content) ELSE fs

\* isMissingCommand(error)
IsMissingCommand(outcome) == outcome = "ENOENT"

\* ---- the action of the install command, one step per await

Fail(message) == pc' = "failed" /\ error' = message

\* line 125: loadRegistryIndexWithSource()
InstallLoadIndex ==
    /\ pc = "start"
    /\ LET source == ResolveRegistrySource(options.registry, env.REGISTRY_URL, env.cwd,
                                           dirs \cup FilePaths(files))
       IN /\ registrySource' = source
          /\ IF IsDefined(world.index)
             THEN /\ index' = world.index
                  /\ trace' = Append(trace, Op("loadJson", source, "ok"))
                  /\ pc' = "manifest" /\ error' = error
             ELSE /\ index' = index
                  /\ trace' = Append(trace, Op("loadJson", source, "error"))
                  /\ Fail("Failed to load")
    /\ UNCHANGED <<call, ret, options, env, world, skill, manifest, version, entry,
                   artifact, artifactSource, outputPath, buffer, destination,
                   dirs, files, dirs0, files0>>

\* lines 126-127: findSkill, then loadManifest
InstallLoadManifest ==
    /\ pc = "manifest"
    /\ LET found == FindSkill(index[1], options.name)
       IN IF found.threw
          THEN /\ Fail(found.error)
               /\ UNCHANGED <<skill, manifest, trace>>
          ELSE LET source == ResolveRelativeSource(env.cwd, registrySource,
                                                   found.value[1].manifest)
               IN /\ skill' = found.value
                  /\ IF IsDefined(world.manifest)
                     THEN /\ manifest' = world.manifest
                          /\ trace' = Append(trace, Op("loadJson", source, "ok"))
                          /\ pc' = "select" /\ error' = error
                     ELSE /\ manifest' = manifest
                          /\ trace' = Append(trace, Op("loadJson", source, "error"))
                          /\ Fail("Failed to load")
    /\ UNCHANGED <<call, ret, options, env, world, registrySource, index, version,
                   entry, artifact, artifactSource, outputPath, buffer, destination,
                   dirs, files, dirs0, files0>>

\* lines 128-143: the version entry, the artifact descriptor, the artifact's
\* source and the output path (createTempFile when --out is not given)
InstallSelect ==
    /\ pc = "select"
    /\ LET v == RequestedVersion(options.version, skill[1])
           e == FindVersionEntry(manifest[1], v)
       IN /\ version' = v
          /\ IF ~IsDefined(e)
             THEN /\ Fail("Version not found")
                  /\ UNCHANGED <<entry, artifact, artifactSource, outputPath, dirs, trace>>
             ELSE LET a == SelectArtifact(e[1], skill[1])
                  IN /\ entry' = e
                     /\ IF ~HasUrl(a)
                        THEN /\ Fail("No artifact url available for this version.")
                             /\ UNCHANGED <<artifact, artifactSource, outputPath, dirs, trace>>
                        ELSE /\ artifact' = a
                             /\ artifactSource' =
                                  ResolveRelativeSource(env.cwd, registrySource, a[1].url)
                             /\ IF Truthy(options.out)
                                THEN /\ outputPath' = PathResolve(env.cwd, <<options.out[1]>>)
                                     /\ UNCHANGED <<dirs, trace>>
                                ELSE /\ outputPath' =
                                          PathJoin(<<TempDir(env), TempFileName(skill[1], v)>>)
                                     /\ dirs' = dirs \cup {TempDir(env)}
                                     /\ trace' = Append(trace, Op("mkdtemp", TempDir(env), "ok"))
                             /\ pc' = "fetch" /\ error' = error
    /\ UNCHANGED <<call, ret, options, env, world, registrySource, index, skill,
                   manifest, buffer, destination, files, dirs0, files0>>

\* line 145: loadBinary(artifactSource)
InstallFetch ==
    /\ pc = "fetch"
    /\ IF IsDefined(world.bytes)
       THEN /\ buffer' = world.bytes
            /\ trace' = Append(trace, Op("loadBinary", artifactSource, "ok"))
            /\ pc' = "write" /\ error' = error
       ELSE /\ buffer' = buffer
            /\ trace' = Append(trace, Op("loadBinary", artifactSource, "error"))
            /\ Fail("Failed to load")
    /\ UNCHANGED <<call, ret, options, env, world, registrySource, index, skill,
                   manifest, version, entry, artifact, artifactSource, outputPath,
                   destination, dirs, files, dirs0, files0>>

\* line 146: fs.writeFile(outputPath, buffer)
InstallWrite ==
    /\ pc = "write"
    /\ IF CanWrite(dirs, files, outputPath)
       THEN /\ files' = WriteFile(files, outputPath, buffer[1])
            /\ trace' = Append(trace, Op("writeFile", outputPath, "ok"))
            /\ pc' = "verify" /\ error' = error
       ELSE /\ files' = files
            /\ trace' = Append(trace, Op("writeFile", outputPath, "error"))
            /\ Fail("ENOENT: no such file or directory")
    /\ UNCHANGED <<call, ret, options, env, world, registrySource, index, skill,
                   manifest, version, entry, artifact, artifactSource, outputPath,
                   buffer, destination, dirs, dirs0, files0>>

\* lines 148-156: the digest check, resolveSkillsDestination, fs.mkdir
InstallVerify ==
    /\ pc = "verify"
    /\ IF ~IntegrityPasses(artifact[1], buffer[1])
       THEN /\ Fail("SHA256 mismatch")
            /\ UNCHANGED <<destination, dirs, trace>>
       ELSE LET dest == resolveSkillsDestination(options.to, env)
            IN /\ destination' = dest
               /\ IF CanMkdir(files, FsAbs(dest))
                  THEN /\ dirs' = dirs \cup Ancestors(FsAbs(dest))
                       /\ trace' = Append(trace, Op("mkdir", dest, "ok"))
                       /\ pc' = "unzip" /\ error' = error
                  ELSE /\ dirs' = dirs
                       /\ trace' = Append(trace, Op("mkdir", dest, "error"))
                       /\ Fail("EEXIST: file already exists")
    /\ UNCHANGED <<call, ret, options, env, world, registrySource, index, skill,
                   manifest, version, entry, artifact, artifactSource, outputPath,
                   buffer, files, dirs0, files0>>

\* lines 289-291, 305-308: runCommand("unzip", ...) and what its failure becomes
InstallUnzip ==
    /\ pc = "unzip"
    /\ \E outcome \in SpawnOutcomes, partly \in BOOLEAN :
          /\ partly => outcome = "exit1"
          /\ trace' = Append(trace, Op("spawn", <<"unzip">>, outcome))
          /\ files' = Extracted(files, FsAbs(destination), buffer[1], outcome, partly)
          /\ IF outcome = "exit0"
             THEN pc' = "done" /\ error' = error
             ELSE IF env.platform = "win32" /\ IsMissingCommand(outcome)
             THEN pc' = "fallback" /\ error' = error
             ELSE IF IsMissingCommand(outcome)
             THEN Fail("unzip not found. Install unzip or extract the .skill manually.")
             ELSE IF outcome = "exit1"
             THEN Fail("unzip failed with code")
             ELSE Fail("spawn unzip EACCES")
    /\ UNCHANGED <<call, ret, options, env, world, registrySource, index, skill,
                   manifest, version, entry, artifact, artifactSource, outputPath,
                   buffer, destination, dirs, dirs0, files0>>

\* lines 293-304: runCommand("powershell", ...), whose rejection leaves the
\* catch block as it is
InstallFallback ==
    /\ pc = "fallback"
    /\ \E outcome \in SpawnOutcomes, partly \in BOOLEAN :
          /\ partly => outcome = "exit1"
          /\ trace' = Append(trace, Op("spawn", <<"powershell">>, outcome))
          /\ files' = Extracted(files, FsAbs(destination), buffer[1], outcome, partly)
          /\ IF outcome = "exit0"
             THEN pc' = "done" /\ error' = error
             ELSE IF IsMissingCommand(outcome)
             THEN Fail("spawn powershell ENOENT")
             ELSE IF outcome = "exit1"
             THEN Fail("powershell failed with code")
             ELSE Fail("spawn powershell EACCES")
    /\ UNCHANGED <<call, ret, options, env, world, registrySource, index, skill,
                   manifest, version, entry, artifact, artifactSource, outputPath,
                   buffer, destination, dirs, dirs0, files0>>

Next ==
    \/ InstallLoadIndex
    \/ InstallLoadManifest
    \/ InstallSelect
    \/ InstallFetch
    \/ InstallWrite
    \/ InstallVerify
    \/ InstallUnzip
    \/ InstallFallback

\* ---- the runs explored

SkillName == <<"f", "o">>

ManifestRef == <<"fo", "/", "manifest.json">>

ArtifactRef(u, h) == [url |-> u, sha256 |-> h]

Contents == {"bytesA", "bytesB"}

\* The descriptors of the selection runs: none, one without a url, one without
\* a digest, one with the digest of bytesA.
SelectionArtifacts ==
    {Undefined,
     Some(ArtifactRef(<<>>, Undefined)),
     Some(ArtifactRef(<<"fo", "/", "v1.skill">>, Undefined)),
     Some(ArtifactRef(<<"https://", "h", "/", "fo.skill">>, Some(sha256("bytesA"))))}

ManifestVersion(v, a) == [version |-> v, artifact |-> a]

Manifests(entries) == {[versions |-> vs] : vs \in SeqsUpTo(entries, MaxVersions)}

BaseDirs == {<<"/">>, <<"/", "w">>, <<"/", "tmp">>, <<"/", "r">>}

HomeDir == <<"/", "home", "u">>

Environment(codexHome, platform) ==
    [cwd |-> <<"/", "w">>, homedir |-> HomeDir, tmpdir |-> <<"/", "tmp">>,
     REGISTRY_URL |-> Undefined, CODEX_HOME |-> codexHome, platform |-> platform]

RegistryOption == Some(<<"/", "r", "/", "index.json">>)

InstallStarts(opts, e, w, ds, fs) ==
    /\ call = <<>> /\ ret = NotCalled
    /\ pc = "start" /\ options = opts /\ env = e /\ world = w
    /\ registrySource = <<>> /\ index = <<>> /\ skill = <<>> /\ manifest = <<>>
    /\ version = <<>> /\ entry = <<>> /\ artifact = <<>> /\ artifactSource = <<>>
    /\ outputPath = <<>> /\ buffer = <<>> /\ destination = <<>>
    /\ dirs = ds /\ files = fs /\ dirs0 = ds /\ files0 = fs
    /\ trace = <<>> /\ error = ""

\* Runs that vary what is selected: the requested version, the skill's latest
\* and default descriptor, the manifest's entries, the bytes served.
Init ==
    \E v \in {Undefined, Some(""), Some("2.0"), Some("9.9")},
       latest \in {"1.0", "2.0"},
       skillArtifact \in SelectionArtifacts,
       man \in Manifests({ManifestVersion(ver, a) :
                             ver \in {"1.0", "2.0"}, a \in SelectionArtifacts}),
       bytes \in Contents :
        InstallStarts(
            [name |-> SkillName, version |-> v, to |-> Some(<<"out">>), out |-> Undefined,
             registry |-> RegistryOption],
            Environment(Undefined, "win32"),
            [index |-> Some([skills |-> <<IndexSkill(SkillName, latest, skillArtifact,
                                                     ManifestRef)>>]),
             manifest |-> Some(man), bytes |-> Some(bytes)],
            BaseDirs, {})

Spec == Init /\ [][Next]_vars

\* Runs that vary what surrounds one version with one descriptor: the skill
\* asked for, --to and --out, CODEX_HOME, the platform, whether the destination
\* is there already, the declared digest, the bytes served, and documents that
\* fail to load.
HexDigits == {"0", "a", "b", "A"}

DeclaredDigests == {Undefined} \cup {Some(h) : h \in SeqsUpTo(HexDigits, MaxHexLen)}

OutDir == <<"/", "w", "/", "out">>

OneVersionWorld(h, bytes, indexThere, manifestThere) ==
    [index |-> IF indexThere
               THEN Some([skills |-> <<IndexSkill(SkillName, "1.0", Undefined, ManifestRef)>>])
               ELSE Undefined,
     manifest |-> IF manifestThere
                  THEN Some([versions |->
                        <<ManifestVersion("1.0",
                            Some(ArtifactRef(<<"fo", "/", "v1.skill">>, h)))>>])
                  ELSE Undefined,
     bytes |-> bytes]

InitInstall ==
    \E name \in {<<"F", "o">>, <<"g", "o">>},
       to \in {Undefined, Some(<<>>), Some(<<"out">>)},
       out \in {Undefined, Some(<<>>), Some(<<"a.skill">>), Some(<<"out", "/", "a.skill">>)},
       codexHome \in {Undefined, Some(<<"/", "ch">>)},
       platform \in {"linux", "win32"},
       destinationThere \in BOOLEAN,
       h \in DeclaredDigests,
       bytes \in {Undefined} \cup {Some(b) : b \in Contents},
       missing \in {"none", "index", "manifest"} :
        /\ missing # "none" =>
              /\ name = <<"F", "o">> /\ to = Undefined /\ out = Undefined
              /\ codexHome = Undefined /\ platform = "linux" /\ ~destinationThere
              /\ h = Undefined /\ bytes = Undefined
        /\ InstallStarts(
              [name |-> name, version |-> Undefined, to |-> to, out |-> out,
               registry |-> RegistryOption],
              Environment(codexHome, platform),
              OneVersionWorld(h, bytes, missing # "index", missing # "manifest"),
              BaseDirs \cup (IF destinationThere THEN {OutDir} ELSE {}),
              IF destinationThere
              THEN {<<PathJoin(<<OutDir, <<"SKILL.md">> >>), "old">>} ELSE {})

SpecInstall == InitInstall /\ [][Next]_vars

\* ================================================================== claims

\* ---- C3

\* An override that is present at all, the empty string included.
Given(o) == o # <<>>

\* An override that is present and not the empty string.
GivenNonEmpty(o) == o # <<>> /\ Len(o[1]) > 0

\* The source the priority chain names, when the option counts as given exactly
\* if hasOpt and the environment value as set exactly if hasEnv.
PrioritySource(hasOpt, hasEnv) ==
    LET candidates == localCandidates(call.cwd)
        there == {i \in 1..Len(candidates) : candidates[i] \in call.existing}
    IN IF hasOpt THEN call.registry[1]
       ELSE IF hasEnv THEN call.envRegistry[1]
       ELSE IF \E i \in there : \A j \in there : i <= j
       THEN candidates[CHOOSE i \in there : \A j \in there : i <= j]
       ELSE DEFAULT_REGISTRY_URL

\* C3 as stated: resolveRegistrySource never fails and returns the --registry
\* option if given, else REGISTRY_URL if set, else the first existing local
\* candidate, else the default URL.
C3_PriorityAsStated ==
    ret.done =>
        /\ ~ret.threw
        /\ ret.value = <<PrioritySource(Given(call.registry), Given(call.envRegistry))>>

\* C3, amended: the same priority chain, where an option or environment value
\* that is the empty string counts as absent.
C3_PriorityNonEmpty ==
    ret.done =>
        /\ ~ret.threw
        /\ ret.value = <<PrioritySource(GivenNonEmpty(call.registry),
                                         GivenNonEmpty(call.envRegistry))>>

\* A call settled by the third local candidate: no option, no environment
\* value, the first two candidates missing.
C3_Witness ==
    /\ ret.done
    /\ call.registry = Undefined /\ call.envRegistry = Undefined
    /\ localCandidates(call.cwd)[1] \notin call.existing
    /\ localCandidates(call.cwd)[2] \notin call.existing
    /\ localCandidates(call.cwd)[3] \in call.existing
    /\ ret.value = <<localCandidates(call.cwd)[3]>>

\* ---- C5

IsAbsoluteReference(r) == IsHttp(r) \/ StartsWith(r, "file://")

\* C5: a reference that is an absolute http(s) or file:// URL is returned
\* unchanged, whatever the base.
C5_AbsoluteReferenceWins ==
    (ret.done /\ IsAbsoluteReference(call.ref)) => ret.value = <<call.ref>>

\* A file:// reference resolved against an http base.
C5_Witness ==
    /\ ret.done
    /\ StartsWith(call.ref, "file://")
    /\ IsHttp(call.base)
    /\ ret.value = <<call.ref>>

\* ---- C6

\* What fileURLToPath does to a segment, and URL.pathname does not.
PercentDecode(seg) == IF seg = "a%20b" THEN "a b" ELSE seg

\* fileURLToPath: the URL's path with its escapes decoded.
FileUrlToPath(u) ==
    LET encoded == FileUrlPathname(u)
    IN [i \in 1..Len(encoded) |-> PercentDecode(encoded[i])]

\* The filesystem path a local base names.
FilesystemPath(base) ==
    IF StartsWith(base, "file://") THEN FileUrlToPath(base) ELSE base

\* The calls of resolveRelativeSource with a file:// base and a relative path
\* as reference.
InitResolveFileUrl ==
    /\ call \in {[fn |-> "resolveRelativeSource", cwd |-> c, base |-> b, ref |-> r] :
                     c \in {<<"/">>, <<"/", "w">>},
                     b \in FileUrlBases,
                     r \in {PathOf(x, FALSE) : x \in SeqsUpTo(RefSegs, MaxDepth)} \ {<<>>}}
    /\ ret = NotCalled
    /\ NoInstall

SpecResolveFileUrl == InitResolveFileUrl /\ [][CallResolveRelativeSource]_vars

\* C6 as stated: for a base that is a path or a file:// URL and a reference that
\* is no absolute URL, the result is the parent directory of the base's
\* filesystem path joined with the reference, and URL resolution is not used.
C6_JoinedWithParentDirectory ==
    (ret.done /\ ~IsHttp(call.base) /\ ~IsAbsoluteReference(call.ref)) =>
        /\ ResolveBranch(call.base, call.ref) # "url"
        /\ ret.value = <<PathJoin(<<PathDirname(FilesystemPath(call.base)), call.ref>>)>>

\* ---- C8

\* The positions of the index whose name equals q, letter case ignored.
MatchesIgnoringCase(q) ==
    {i \in 1..Len(call.index.skills) :
        ToLowerCase(call.index.skills[i].name) = ToLowerCase(q)}

FirstMatchOrNotFound(q) ==
    /\ ret.threw <=> MatchesIgnoringCase(q) = {}
    /\ ret.threw => ret.error = "Skill not found"
    /\ ~ret.threw =>
          \E i \in MatchesIgnoringCase(q) :
              /\ \A j \in MatchesIgnoringCase(q) : i <= j
              /\ ret.value = <<call.index.skills[i]>>

\* C8 as stated: findSkill returns the first skill whose name equals the queried
\* name, letter case ignored, and fails exactly when no name matches.
C8_FirstMatchAsStated == ret.done => FirstMatchOrNotFound(call.name)

\* C8, amended: the queried name is compared after its leading and trailing
\* white space is removed.
C8_FirstMatchOfTrimmedQuery == ret.done => FirstMatchOrNotFound(Trim(call.name))

\* A query in other letter case, with duplicate names in the index: the earlier
\* entry is returned.
C8_Witness ==
    /\ ret.done /\ ~ret.threw
    /\ call.name = <<"F", "o">>
    /\ Len(call.index.skills) = 2
    /\ call.index.skills[1].name = <<"f", "o">>
    /\ call.index.skills[2].name = <<"F", "O">>
    /\ call.index.skills[1].latest # call.index.skills[2].latest
    /\ ret.value = <<call.index.skills[1]>>

\* ---- the install command, as the claims speak of it

Finished == pc \in {"done", "failed"}

\* The manifest was fetched and parsed.
ManifestLoaded ==
    Len(trace) >= 2 /\ trace[2].op = "loadJson" /\ trace[2].result = "ok"

\* The version asked for: --version if given, the skill's latest otherwise.
Requested == IF options.version # <<>> THEN options.version[1] ELSE skill[1].latest

\* Nothing was done for the artifact: no source resolved, nothing fetched, no
\* output or temporary file, no directory made, no tool run.
NoArtifactAccess ==
    /\ \A i \in 1..Len(trace) : trace[i].op = "loadJson"
    /\ artifactSource = <<>> /\ outputPath = <<>> /\ buffer = <<>>
    /\ dirs = dirs0 /\ files = files0

\* The spawns of the run, in order.
Spawns == SelectSeq(trace, LAMBDA t : t.op = "spawn")

\* ---- C1

\* The directory the skills go to, from --to, CODEX_HOME and the home directory.
SkillsDirectory == FsAbs(resolveSkillsDestination(options.to, env))

ContentsOf(fs, d) == {f \in fs : IsInside(f[1], d)}

\* The artifact was fetched and written to the output path, and declares a
\* digest that is not the bytes' own.
DigestMismatch ==
    /\ buffer # <<>> /\ artifact # <<>>
    /\ \E i \in 1..Len(trace) : trace[i].op = "writeFile" /\ trace[i].result = "ok"
    /\ GivenNonEmpty(artifact[1].sha256)
    /\ artifact[1].sha256[1] # sha256(buffer[1])

\* C1: whatever --to and --out are, a run whose artifact declares a sha256 other
\* than the digest of the fetched bytes ends in the integrity error, runs no
\* extraction tool, and neither creates nor modifies the skills directory.
\* (Stated of the runs that get as far as the digest check.)
C1_MismatchLeavesDestinationAlone ==
    DigestMismatch =>
        /\ Spawns = <<>>
        /\ SkillsDirectory \in dirs => SkillsDirectory \in dirs0
        /\ ContentsOf(files, SkillsDirectory) = ContentsOf(files0, SkillsDirectory)
        /\ Finished => (pc = "failed" /\ error = "SHA256 mismatch")

\* ---- C2

\* C2: when no entry of the manifest has the requested version, the run fails
\* with the version-not-found error and nothing is done for the artifact.
C2_VersionNotFoundBeforeArtifactAccess ==
    (/\ ManifestLoaded
     /\ \A i \in 1..Len(manifest[1].versions) :
            manifest[1].versions[i].version # Requested) =>
        /\ pc \in {"select", "failed"}
        /\ pc = "failed" => error = "Version not found"
        /\ NoArtifactAccess

\* A run that asked for 9.9 of a manifest with two other versions, and failed.
C2_Witness ==
    /\ pc = "failed" /\ error = "Version not found"
    /\ options.version = Some("9.9")
    /\ Len(manifest[1].versions) = 2
    /\ NoArtifactAccess

\* ---- C4

\* C4: unzip is tried first; the fallback is tried exactly when unzip was not
\* found and the platform has a fallback; unzip not found and no fallback to
\* try, or the fallback not found either, is the missing-tool error; a failed
\* unzip is the extraction error, with no fallback tried.
C4_ExtractionStrategy ==
    (Finished /\ Spawns # <<>>) =>
        /\ Spawns[1].arg = <<"unzip">>
        /\ Len(Spawns) > 1 <=>
              (IsMissingCommand(Spawns[1].result) /\ env.platform = "win32")
        /\ (/\ IsMissingCommand(Spawns[1].result)
            /\ Len(Spawns) > 1 => IsMissingCommand(Spawns[2].result)) =>
              (pc = "failed"
               /\ error = "unzip not found. Install unzip or extract the .skill manually.")
        /\ Spawns[1].result = "exit1" =>
              (pc = "failed" /\ error = "unzip failed with code" /\ Len(Spawns) = 1)

\* ---- C7

\* The digest check was made: the bytes were fetched and written.
Verified ==
    /\ pc # "verify"
    /\ \E i \in 1..Len(trace) : trace[i].op = "writeFile" /\ trace[i].result = "ok"

Rejected == pc = "failed" /\ error = "SHA256 mismatch"

\* A hex value: at least one digit, and hex digits only.
IsHexValue(h) ==
    /\ h # <<>>
    /\ \A i \in 1..Len(h) :
          h[i] \in {"0", "1", "2", "3", "4", "5", "6", "7", "8", "9",
                    "a", "b", "c", "d", "e", "f", "A", "B", "C", "D", "E", "F"}

\* C7: the check passes when no digest is declared, passes when the declared
\* digest is the lowercase hex SHA-256 of the bytes, and is the integrity error
\* for every other declared hex value.
C7_IntegrityVerdict ==
    Verified =>
        LET expected == artifact[1].sha256
            digest == sha256(buffer[1])
        IN /\ expected = Undefined => ~Rejected
           /\ expected = Some(digest) => ~Rejected
           /\ (expected # Undefined /\ IsHexValue(expected[1]) /\ expected[1] # digest)
                 => Rejected

\* The digest of the bytes declared in upper case, and rejected.
C7_Witness ==
    /\ Rejected
    /\ buffer = Some("bytesA")
    /\ artifact[1].sha256 = Some(<<"A", "0">>)
    /\ Spawns = <<>>

\* ---- C9

\* C9: the entry installed is one whose version string is exactly the requested
\* one, --version if given and the skill's latest otherwise, wherever it stands
\* in the manifest's list.
C9_ExactRequestedVersion ==
    entry # <<>> =>
        /\ version = Requested
        /\ entry[1].version = Requested
        /\ \E i \in 1..Len(manifest[1].versions) : manifest[1].versions[i] = entry[1]

\* No --version, latest 1.0, the manifest listing 2.0 before 1.0: 1.0 it is.
C9_Witness ==
    /\ entry # <<>>
    /\ options.version = Undefined
    /\ skill[1].latest = "1.0"
    /\ Len(manifest[1].versions) = 2
    /\ manifest[1].versions[1].version = "2.0"
    /\ manifest[1].versions[2].version = "1.0"
    /\ entry[1] = manifest[1].versions[2]

\* ---- C10

NoArtifactError == pc = "failed" /\ error = "No artifact url available for this version."

\* C10: the descriptor used is the version entry's when it has one, else the
\* skill's; the run fails with the no-artifact error exactly when there is no
\* such descriptor or it has no url, and then nothing is done for the artifact.
C10_ArtifactSelection ==
    entry # <<>> =>
        LET chosen == IF entry[1].artifact # Undefined
                      THEN entry[1].artifact ELSE skill[1].artifact
            usable == chosen # Undefined /\ chosen[1].url # <<>>
        IN /\ NoArtifactError <=> ~usable
           /\ NoArtifactError => NoArtifactAccess
           /\ usable => artifact = chosen

\* The version's descriptor has no url, the skill's has one: the run fails.
C10_Witness ==
    /\ NoArtifactError
    /\ entry[1].artifact = Some(ArtifactRef(<<>>, Undefined))
    /\ skill[1].artifact # Undefined
    /\ skill[1].artifact[1].url # <<>>

====
